---- MODULE Spec2Model ----
(***************************************************************************)
(* Model of the pub command (main.go): realMain publishes a batch of       *)
(* messages to a Pub/Sub topic, getData decodes the batch from the second  *)
(* argument or from standard input.                                        *)
(*                                                                         *)
(* Strings and byte slices are sequences of byte values (0..255).  Slice   *)
(* indices of the Go code are 0-based; element i of a Go slice is element  *)
(* i + 1 of the sequence that models it.                                   *)
(***************************************************************************)
EXTENDS Integers, Sequences, FiniteSets, TLC

(***************************************************************************)
(* Bounds of the model.                                                    *)
(***************************************************************************)
\* longest argument / standard input explored by SpecData
MaxLen == 5
\* largest number of input lines read from standard input by realMain
MaxLines == 3

(***************************************************************************)
(* Bytes that the code or the libraries it calls treat specially.          *)
(***************************************************************************)
LF == 10
CR == 13
SP == 32
DASH == 45
SLASH == 47
PAD == 61
\* value of decodeMap for a byte outside the base64 alphabet
InvalidSym == 255

\* the characters SpecData builds arguments and standard input from:
\* '\n', ' ', '-', '=', 'Q', 'R'
Chars == {LF, SP, DASH, PAD, 81, 82}

RECURSIVE StrsOfLen(_)
StrsOfLen(n) ==
    IF n = 0 THEN {<<>>}
    ELSE {Append(s, c) : s \in StrsOfLen(n - 1), c \in Chars}

Strs == UNION {StrsOfLen(n) : n \in 0..MaxLen}

RECURSIVE SeqsOfLen(_, _)
SeqsOfLen(S, n) ==
    IF n = 0 THEN {<<>>}
    ELSE {Append(s, x) : s \in SeqsOfLen(S, n - 1), x \in S}

BoundedSeq(S, n) == UNION {SeqsOfLen(S, k) : k \in 0..n}

(***************************************************************************)
(* strings / bytes helpers, computed on the bytes as the library does.     *)
(***************************************************************************)
\* strings.Contains(s, "/") for a one-byte needle
Contains(s, c) == \E i \in 1..Len(s) : s[i] = c

\* strings.Split(s, sep) / bytes.Split(s, sep) for a one-byte separator:
\* always at least one part; n separators give n + 1 parts
RECURSIVE SplitFrom(_, _, _, _)
SplitFrom(s, sep, i, cur) ==
    IF i > Len(s) THEN <<cur>>
    ELSE IF s[i] = sep THEN <<cur>> \o SplitFrom(s, sep, i + 1, <<>>)
    ELSE SplitFrom(s, sep, i + 1, Append(cur, s[i]))

Split(s, sep) == SplitFrom(s, sep, 1, <<>>)

\* strings.Join(parts, sep) for a one-byte separator (used to build inputs)
RECURSIVE Join(_, _)
Join(parts, sep) ==
    IF Len(parts) = 0 THEN <<>>
    ELSE IF Len(parts) = 1 THEN parts[1]
    ELSE parts[1] \o <<sep>> \o Join(Tail(parts), sep)

\* unicode.IsSpace on the ASCII range: \t \n \v \f \r and space
IsSpace(c) == c \in {9, 10, 11, 12, 13, 32}

RECURSIVE TrimLeft(_)
TrimLeft(s) ==
    IF Len(s) > 0 /\ IsSpace(s[1]) THEN TrimLeft(Tail(s)) ELSE s

RECURSIVE TrimRight(_)
TrimRight(s) ==
    IF Len(s) > 0 /\ IsSpace(s[Len(s)])
    THEN TrimRight(SubSeq(s, 1, Len(s) - 1))
    ELSE s

\* bytes.TrimSpace
TrimSpace(s) == TrimRight(TrimLeft(s))

(***************************************************************************)
(* base64.StdEncoding (standard alphabet, '=' padding, not strict).        *)
(***************************************************************************)
\* Encoding.decodeMap: the 6-bit value of an alphabet byte, 0xff otherwise
decodeMap(c) ==
    IF c >= 65 /\ c <= 90 THEN c - 65
    ELSE IF c >= 97 /\ c <= 122 THEN c - 97 + 26
    ELSE IF c >= 48 /\ c <= 57 THEN c - 48 + 52
    ELSE IF c = 43 THEN 62
    ELSE IF c = 47 THEN 63
    ELSE InvalidSym

\* the alphabet of the encoder, for the properties that encode a payload
\* again: the byte of a 6-bit value
encodeMap(v) ==
    IF v < 26 THEN 65 + v
    ELSE IF v < 52 THEN 97 + (v - 26)
    ELSE IF v < 62 THEN 48 + (v - 52)
    ELSE IF v = 62 THEN 43
    ELSE 47

\* index (0-based) of the first byte at or after si that is not '\r' or '\n'
RECURSIVE SkipNewlines(_, _)
SkipNewlines(src, si) ==
    IF si < Len(src) /\ src[si + 1] \in {LF, CR}
    THEN SkipNewlines(src, si + 1)
    ELSE si

\* the bytes a quantum of dlen symbols yields: dlen - 1 bytes of the 24-bit
\* value; the unused low bits are dropped without a check (not strict)
QuantumBytes(dbuf, dlen) ==
    LET val == dbuf[1] * 262144 + dbuf[2] * 4096 + dbuf[3] * 64 + dbuf[4]
        b0 == val \div 65536
        b1 == (val \div 256) % 256
        b2 == val % 256
    IN  IF dlen = 4 THEN <<b0, b1, b2>>
        ELSE IF dlen = 3 THEN <<b0, b1>>
        ELSE IF dlen = 2 THEN <<b0>>
        ELSE <<>>

\* Encoding.decodeQuantum: reads up to four symbols from src[si:], skipping
\* '\r' and '\n'; result: next index, decoded bytes, corrupt-input flag
RECURSIVE decodeQuantum(_, _, _, _)
decodeQuantum(src, si, j, dbuf) ==
    IF j = 4
    THEN [si |-> si, out |-> QuantumBytes(dbuf, 4), err |-> FALSE]
    ELSE IF si = Len(src)
    THEN \* input ends inside a quantum: fine only at a quantum boundary
         [si |-> si, out |-> <<>>, err |-> (j # 0)]
    ELSE LET in == src[si + 1]
             sym == decodeMap(in)
         IN  IF sym # InvalidSym
             THEN decodeQuantum(src, si + 1, j + 1, [dbuf EXCEPT ![j + 1] = sym])
             ELSE IF in \in {LF, CR}
             THEN decodeQuantum(src, si + 1, j, dbuf)
             ELSE IF in # PAD
             THEN [si |-> si + 1, out |-> <<>>, err |-> TRUE]
             ELSE IF j < 2
             THEN \* padding after zero or one symbol
                  [si |-> si + 1, out |-> <<>>, err |-> TRUE]
             ELSE LET s1 == IF j = 2 THEN SkipNewlines(src, si + 1) ELSE si + 1
                      \* after two symbols a second '=' is required
                      short == j = 2 /\ (s1 = Len(src) \/ src[s1 + 1] # PAD)
                      s2 == IF j = 2 THEN s1 + 1 ELSE s1
                      s3 == SkipNewlines(src, s2)
                  IN  IF short
                      THEN [si |-> s1, out |-> <<>>, err |-> TRUE]
                      ELSE [si |-> s3, out |-> QuantumBytes(dbuf, j),
                            \* anything after the padding is trailing garbage
                            err |-> s3 < Len(src)]

\* Encoding.Decode: quantum after quantum until the input ends or one fails
RECURSIVE Decode(_, _, _)
Decode(src, si, acc) ==
    IF si >= Len(src) THEN [ok |-> TRUE, data |-> acc]
    ELSE LET q == decodeQuantum(src, si, 0, <<0, 0, 0, 0>>)
         IN  IF q.err THEN [ok |-> FALSE, data |-> acc \o q.out]
             ELSE Decode(src, q.si, acc \o q.out)

\* base64.StdEncoding.DecodeString
DecodeString(s) == Decode(s, 0, <<>>)

\* base64.StdEncoding.EncodeToString, for the properties that encode a
\* payload again (the program itself never encodes)
RECURSIVE EncodeToString(_)
EncodeToString(b) ==
    IF Len(b) = 0 THEN <<>>
    ELSE IF Len(b) = 1
    THEN <<encodeMap(b[1] \div 4), encodeMap((b[1] % 4) * 16), PAD, PAD>>
    ELSE IF Len(b) = 2
    THEN <<encodeMap(b[1] \div 4),
           encodeMap((b[1] % 4) * 16 + b[2] \div 16),
           encodeMap((b[2] % 16) * 4), PAD>>
    ELSE <<encodeMap(b[1] \div 4),
           encodeMap((b[1] % 4) * 16 + b[2] \div 16),
           encodeMap((b[2] % 16) * 4 + b[3] \div 64),
           encodeMap(b[3] % 64)>> \o EncodeToString(SubSeq(b, 4, Len(b)))


(***************************************************************************)
(* Errors: an error value is a record of its kind and what it carries.     *)
(***************************************************************************)
NoErr == [kind |-> "nil", info |-> <<>>]
Err(kind, info) == [kind |-> kind, info |-> info]

(***************************************************************************)
(* getData (main.go 177-214)                                               *)
(***************************************************************************)
\* the index a decode failure reports: the range index over all lines
DecodeErrIdxOfOutput(idx, out) == Len(out)
DecodeErrIdx(idx, out) == idx

\* the payload used when the argument does not decode: its raw bytes
RawFallbackEmpty(s) == <<>>
RawFallback(s) == s

\* the loop over the lines of standard input, from range index idx on
RECURSIVE getDataLines(_, _, _)
getDataLines(lines, idx, out) ==
    IF idx = Len(lines) THEN [out |-> out, err |-> NoErr]
    ELSE LET trimmed == TrimSpace(lines[idx + 1])
         IN  IF Len(trimmed) = 0
             THEN getDataLines(lines, idx + 1, out)
             ELSE LET d == DecodeString(trimmed)
                  IN  IF ~d.ok
                      THEN [out |-> <<>>,
                            err |-> Err("decode line", <<DecodeErrIdx(idx, out)>>)]
                      ELSE getDataLines(lines, idx + 1, Append(out, d.data))

\* getData(strData) with the content of standard input and whether reading
\* it succeeds; result: the payloads and the error
getData(str, input, readOk) ==
    IF str = <<DASH>>
    THEN IF ~readOk THEN [out |-> <<>>, err |-> Err("read stdin", <<>>)]
         ELSE getDataLines(Split(input, LF), 0, <<>>)
    ELSE LET d == DecodeString(str)
         IN  [out |-> << IF d.ok THEN d.data ELSE RawFallback(str) >>,
              err |-> NoErr]

(***************************************************************************)
(* Validation of the batch (main.go 130-142)                               *)
(***************************************************************************)
EmptyBatchNever(m) == FALSE
EmptyBatch(m) == Len(m) = 0

\* lo.FindDuplicatesBy(msgs, string): the payloads that occur more than
\* once, each listed once, in the order of their first occurrence
RECURSIVE PickFrom(_, _, _)
PickFrom(m, keep, i) ==
    IF i > Len(m) THEN <<>>
    ELSE (IF i \in keep THEN <<m[i]>> ELSE <<>>) \o PickFrom(m, keep, i + 1)

FindDuplicatesAdjacent(m) ==
    PickFrom(m, {i \in 1..Len(m) :
                    /\ i < Len(m) /\ m[i + 1] = m[i]
                    /\ \A j \in 1..(i - 1) : m[j] # m[i]}, 1)
FindDuplicatesBy(m) ==
    PickFrom(m, {i \in 1..Len(m) :
                    /\ \E j \in 1..Len(m) : j # i /\ m[j] = m[i]
                    /\ \A j \in 1..(i - 1) : m[j] # m[i]}, 1)

(***************************************************************************)
(* Inputs of realMain                                                      *)
(***************************************************************************)
\* "projects", "topics", "p1", "t1"
sProjects == <<112, 114, 111, 106, 101, 99, 116, 115>>
sTopics == <<116, 111, 112, 105, 99, 115>>
sP1 == <<112, 49>>
sT1 == <<116, 49>>
\* the project getProject returns
DefaultProject == <<112, 48>>

\* first arguments tried: none, a short name, the full path, four segments
\* without the literals, three and five segments, "/"
TopicSet ==
    { <<>>,
      sT1,
      Join(<<sProjects, sP1, sTopics, sT1>>, SLASH),
      Join(<<sTopics, sP1, sProjects, sT1>>, SLASH),
      Join(<<sProjects, sP1, sTopics>>, SLASH),
      Join(<<sProjects, sP1, sTopics, sT1, sT1>>, SLASH),
      Join(<< <<>>, <<>> >>, SLASH) }

\* second arguments tried: none, "-", "QQ==" (base64 of "A"), "Q-" (raw)
DataSet == { <<>>, <<DASH>>, <<81, 81, PAD, PAD>>, <<81, DASH>> }

\* lines standard input is made of: " ", "*", and "QQ==", "Qg==", "Qw=="
\* (base64 of "A", "B", "C")
LineSet == { <<SP>>, <<42>>, <<81, 81, PAD, PAD>>,
             <<81, 103, PAD, PAD>>, <<81, 119, PAD, PAD>> }

\* contents of standard input: up to MaxLines lines joined by '\n'
StdinSet == {Join(ls, LF) : ls \in BoundedSeq(LineSet, MaxLines)}


(***************************************************************************)
(* State of one run of realMain                                            *)
(***************************************************************************)
VARIABLES
    topic,          \* flag.Arg(0)
    strData,        \* flag.Arg(1)
    listTopics,     \* the -list flag
    pc,             \* where realMain is
    ctxDone,        \* the context of signal.NotifyContext is cancelled
    poolCtxDone,    \* the pool's context, derived from it, is cancelled
    t,              \* the topic handle: <<>> or <<[project, name]>>
    exists,         \* outcome of t.Exists: "none" before the call
    stdin,          \* what io.ReadAll(os.Stdin) returned
    msgs,           \* the decoded batch
    bytes,          \* sum of the payload lengths of the tasks spawned
    task,           \* task[i]: state of the publish task of message i
    errs,           \* the errors the pool has recorded, in recording order
    published,      \* the t.Publish calls made, in call order
    err,            \* the error realMain returned (NoErr: none)
    summary,        \* the summary line printed: <<>> or <<[bytes, count, to]>>
    stages,         \* the stages of the pipeline executed so far, in order
    awaitingAtCancel \* the tasks that were awaiting when the interrupt came

vars == <<topic, strData, listTopics, pc, ctxDone, poolCtxDone, t, exists,
          stdin, msgs, bytes, task, errs, published, err, summary, stages,
          awaitingAtCancel>>

inputs == <<topic, strData, listTopics>>

Terminal == {"ok", "failed", "aborted"}

\* the tasks of the batch, by message index
Tasks == DOMAIN task

\* number of tasks already handed to the pool
Spawned == Cardinality({i \in Tasks : task[i] # "idle"})

Init ==
    /\ topic \in TopicSet
    /\ strData \in DataSet
    /\ listTopics \in BOOLEAN
    /\ pc = "connect"
    /\ ctxDone = FALSE
    /\ poolCtxDone = FALSE
    /\ t = <<>>
    /\ exists = "none"
    /\ stdin = <<>>
    /\ msgs = <<>>
    /\ bytes = 0
    /\ task = <<>>
    /\ errs = <<>>
    /\ published = <<>>
    /\ err = NoErr
    /\ summary = <<>>
    /\ stages = <<>>
    /\ awaitingAtCancel = {}

\* return err from realMain; the deferred cancel releases the signal context
Return(e) ==
    /\ pc' = "done"
    /\ err' = e
    /\ ctxDone' = TRUE

(***************************************************************************)
(* realMain, step by step                                                  *)
(***************************************************************************)
\* 79-88: getProject and pubsub.NewClient, either of which may fail
Connect ==
    /\ pc = "connect"
    /\ \E ok \in BOOLEAN :
          IF ok THEN /\ pc' = "args"
                     /\ UNCHANGED <<err, ctxDone>>
          ELSE Return(Err("connect", <<>>))
    /\ UNCHANGED <<inputs, poolCtxDone, t, exists, stdin, msgs, bytes, task,
                   errs, published, summary, stages, awaitingAtCancel>>

\* 90-102: -list, and the checks of the two arguments
Args ==
    /\ pc = "args"
    /\ IF listTopics
       THEN \E ok \in BOOLEAN :
               Return(IF ok THEN NoErr ELSE Err("list topics", <<>>))
       ELSE IF topic = <<>>
       THEN Return(Err("expects topic as first argument", <<>>))
       ELSE IF strData = <<>>
       THEN Return(Err("expects data as second argument", <<>>))
       ELSE /\ pc' = "resolve"
            /\ UNCHANGED <<err, ctxDone>>
    /\ UNCHANGED <<inputs, poolCtxDone, t, exists, stdin, msgs, bytes, task,
                   errs, published, summary, stages, awaitingAtCancel>>

\* 108: the test a full path has to pass
PathAccepted(parts) == Len(parts) = 4

\* 104-115: the topic handle
ResolveTopic ==
    /\ pc = "resolve"
    /\ stages' = Append(stages, "ResolveTopic")
    /\ IF Contains(topic, SLASH)
       THEN LET parts == Split(topic, SLASH)
            IN  IF ~PathAccepted(parts)
                THEN /\ Return(Err("invalid format", <<>>))
                     /\ t' = <<[project |-> DefaultProject, name |-> topic]>>
                ELSE /\ t' = <<[project |-> parts[2], name |-> parts[4]]>>
                     /\ pc' = "exists"
                     /\ UNCHANGED <<err, ctxDone>>
       ELSE /\ t' = <<[project |-> DefaultProject, name |-> topic]>>
            /\ pc' = "exists"
            /\ UNCHANGED <<err, ctxDone>>
    /\ UNCHANGED <<inputs, poolCtxDone, exists, stdin, msgs, bytes, task,
                   errs, published, summary, awaitingAtCancel>>

\* 121: the topic was found
TopicFoundUnlessError(e) == e # "error"
TopicFound(e) == e = "true"

\* 117-123: t.Exists(ctx); a call on a cancelled context fails
CheckExists ==
    /\ pc = "exists"
    /\ stages' = Append(stages, "CheckExists")
    /\ \E e \in (IF ctxDone THEN {"error"} ELSE {"true", "false", "error"}) :
          /\ exists' = e
          /\ IF e = "error" THEN Return(Err("exists", <<>>))
             ELSE IF ~TopicFound(e) THEN Return(Err("topic not found", t))
             ELSE /\ pc' = "parse"
                  /\ UNCHANGED <<err, ctxDone>>
    /\ UNCHANGED <<inputs, poolCtxDone, t, stdin, msgs, bytes, task,
                   errs, published, summary, awaitingAtCancel>>

\* 125-128: getData; standard input is read only when the argument is "-"
Parse ==
    /\ pc = "parse"
    /\ stages' = Append(stages, "Parse")
    /\ \E input \in (IF strData = <<DASH>> THEN StdinSet ELSE {<<>>}),
          readOk \in (IF strData = <<DASH>> THEN BOOLEAN ELSE {TRUE}) :
          LET r == getData(strData, input, readOk)
          IN  /\ stdin' = input
              /\ msgs' = r.out
              /\ IF r.err.kind # "nil" THEN Return(r.err)
                 ELSE /\ pc' = "validate"
                      /\ UNCHANGED <<err, ctxDone>>
    /\ UNCHANGED <<inputs, poolCtxDone, t, exists, bytes, task,
                   errs, published, summary, awaitingAtCancel>>

\* 145: the context pool.WithContext derives is done when its parent is
DerivedDetached(parentDone) == FALSE
DerivedDone(parentDone) == parentDone

\* 130-147: the checks of the batch, then the pool and its context
Validate ==
    /\ pc = "validate"
    /\ stages' = Append(stages, "Validate")
    /\ IF EmptyBatch(msgs)
       THEN /\ Return(Err("no data to publish", <<>>))
            /\ UNCHANGED <<task, poolCtxDone>>
       ELSE IF Len(FindDuplicatesBy(msgs)) > 0
       THEN /\ Return(Err("duplicates found", FindDuplicatesBy(msgs)))
            /\ UNCHANGED <<task, poolCtxDone>>
       ELSE /\ pc' = IF Len(msgs) = 0 THEN "wait" ELSE "dispatch"
            /\ task' = [i \in 0..(Len(msgs) - 1) |-> "idle"]
            /\ poolCtxDone' = DerivedDone(ctxDone)
            /\ UNCHANGED <<err, ctxDone>>
    /\ UNCHANGED <<inputs, t, exists, stdin, msgs, bytes,
                   errs, published, summary, awaitingAtCancel>>

\* 148-164: one iteration of the loop: p.Go starts the task of message idx
Spawn ==
    /\ pc = "dispatch"
    /\ LET idx == Spawned
       IN  /\ stages' = IF idx = 0 THEN Append(stages, "Dispatch") ELSE stages
           /\ bytes' = bytes + Len(msgs[idx + 1])
           /\ task' = [task EXCEPT ![idx] = "spawned"]
           /\ pc' = IF idx + 1 = Len(msgs) THEN "wait" ELSE "dispatch"
    /\ UNCHANGED <<inputs, ctxDone, poolCtxDone, t, exists, stdin, msgs,
                   errs, published, err, summary, awaitingAtCancel>>


(***************************************************************************)
(* The publish tasks (main.go 153-163), one goroutine per message          *)
(***************************************************************************)
\* 154-157: the task calls t.Publish(ctx, msg)
TaskPublish(i) ==
    /\ i \in Tasks
    /\ task[i] = "spawned"
    /\ task' = [task EXCEPT ![i] = "awaiting"]
    /\ published' = Append(published, [idx |-> i, data |-> msgs[i + 1]])
    /\ UNCHANGED <<inputs, pc, ctxDone, poolCtxDone, t, exists, stdin, msgs,
                   bytes, errs, err, summary, stages, awaitingAtCancel>>

\* 157, 161-162: Get returns the server id; a result that is ready is
\* returned even when the context is done
TaskAck(i) ==
    /\ i \in Tasks
    /\ task[i] = "awaiting"
    /\ task' = [task EXCEPT ![i] = "ok"]
    /\ UNCHANGED <<inputs, pc, ctxDone, poolCtxDone, t, exists, stdin, msgs,
                   bytes, errs, published, err, summary, stages,
                   awaitingAtCancel>>

\* 157-160: Get returns the error of the publish; the pool records it and,
\* not being set to cancel on error, leaves its context alone
TaskErr(i) ==
    /\ i \in Tasks
    /\ task[i] = "awaiting"
    /\ task' = [task EXCEPT ![i] = "failed"]
    /\ errs' = Append(errs, [idx |-> i, cause |-> "publish"])
    /\ UNCHANGED <<inputs, pc, ctxDone, poolCtxDone, t, exists, stdin, msgs,
                   bytes, published, err, summary, stages, awaitingAtCancel>>

\* 157-160: Get returns ctx.Err() once the context is done
TaskAbort(i) ==
    /\ i \in Tasks
    /\ task[i] = "awaiting"
    /\ poolCtxDone
    /\ task' = [task EXCEPT ![i] = "aborted"]
    /\ errs' = Append(errs, [idx |-> i, cause |-> "context canceled"])
    /\ UNCHANGED <<inputs, pc, ctxDone, poolCtxDone, t, exists, stdin, msgs,
                   bytes, published, err, summary, stages, awaitingAtCancel>>

(***************************************************************************)
(* Join and report (main.go 166-174)                                       *)
(***************************************************************************)
\* p.Wait blocks until every task handed to the pool has returned
JoinReadyOnFirstError(tk) ==
    \/ \A i \in DOMAIN tk : tk[i] \in Terminal
    \/ \E i \in DOMAIN tk : tk[i] \in {"failed", "aborted"}
JoinReady(tk) == \A i \in DOMAIN tk : tk[i] \in Terminal

\* the error p.Wait returns: nil without recorded errors, else the join of
\* all of them in recording order (the pool is not set to keep the first)
WaitErrNil(es) == NoErr
WaitErrFirst(es) ==
    IF Len(es) = 0 THEN NoErr ELSE Err("publish msg", <<es[1]>>)
WaitErr(es) ==
    IF Len(es) = 0 THEN NoErr ELSE Err("publish msg", es)

\* 166-168: p.Wait, whose deferred cancel releases the pool's context
Wait ==
    /\ pc = "wait"
    /\ JoinReady(task)
    /\ stages' = Append(stages, "Aggregate")
    /\ poolCtxDone' = TRUE
    /\ IF WaitErr(errs).kind # "nil" THEN Return(WaitErr(errs))
       ELSE /\ pc' = "report"
            /\ UNCHANGED <<err, ctxDone>>
    /\ UNCHANGED <<inputs, t, exists, stdin, msgs, bytes, task, errs,
                   published, summary, awaitingAtCancel>>

\* 170-174: the summary line
Report ==
    /\ pc = "report"
    /\ stages' = Append(stages, "Report")
    /\ summary' = <<[bytes |-> bytes, count |-> Len(msgs), to |-> t[1]]>>
    /\ Return(NoErr)
    /\ UNCHANGED <<inputs, poolCtxDone, t, exists, stdin, msgs, bytes, task,
                   errs, published, awaitingAtCancel>>

\* 76: os.Interrupt cancels the signal context and every context derived
\* from it
Interrupt ==
    /\ pc # "done"
    /\ ~ctxDone
    /\ ctxDone' = TRUE
    /\ poolCtxDone' = IF pc \in {"dispatch", "wait"}
                      THEN DerivedDone(TRUE) ELSE poolCtxDone
    /\ awaitingAtCancel' = {i \in Tasks : task[i] = "awaiting"}
    /\ UNCHANGED <<inputs, pc, t, exists, stdin, msgs, bytes, task, errs,
                   published, err, summary, stages>>

Driver ==
    \/ Connect
    \/ Args
    \/ ResolveTopic
    \/ CheckExists
    \/ Parse
    \/ Validate
    \/ Spawn
    \/ Wait
    \/ Report

Next ==
    \/ Driver
    \/ \E i \in 0..(MaxLines - 1) : TaskPublish(i)
    \/ \E i \in 0..(MaxLines - 1) : TaskAck(i)
    \/ \E i \in 0..(MaxLines - 1) : TaskErr(i)
    \/ \E i \in 0..(MaxLines - 1) : TaskAbort(i)
    \/ Interrupt

Spec == Init /\ [][Next]_vars

\* the Go scheduler runs every runnable goroutine: realMain takes its next
\* step, a spawned task makes its Publish call, and a task whose context is
\* done gets out of Get
FairSpec ==
    /\ Spec
    /\ WF_vars(Driver)
    /\ \A i \in 0..(MaxLines - 1) : WF_vars(TaskPublish(i))
    /\ \A i \in 0..(MaxLines - 1) : WF_vars(TaskAbort(i))

(***************************************************************************)
(* getData on its own, over every argument and every content of standard   *)
(* input of at most MaxLen bytes                                           *)
(***************************************************************************)
\* contents of standard input whose lines carry leading and trailing
\* white space: " QQQQ\r" and "\tQQ==" among blank and undecodable lines
PaddedStdinSet ==
    {Join(ls, LF) : ls \in BoundedSeq({<<>>, <<SP, CR>>, <<42>>,
                                        <<SP, 81, 81, 81, 81, CR>>,
                                        <<9, 81, 81, PAD, PAD>>}, MaxLines)}

InitData ==
    /\ \/ /\ strData = <<DASH>>
          /\ stdin \in Strs \cup StdinSet \cup PaddedStdinSet
       \/ /\ strData \in Strs \ {<<DASH>>}
          /\ stdin = <<>>
    /\ topic = <<>>
    /\ listTopics = FALSE
    /\ pc = "getData"
    /\ ctxDone = FALSE
    /\ poolCtxDone = FALSE
    /\ t = <<>>
    /\ exists = "none"
    /\ msgs = <<>>
    /\ bytes = 0
    /\ task = <<>>
    /\ errs = <<>>
    /\ published = <<>>
    /\ err = NoErr
    /\ summary = <<>>
    /\ stages = <<>>
    /\ awaitingAtCancel = {}

\* the call msgs, err := getData(strData)
GetDataCall ==
    /\ pc = "getData"
    /\ \E readOk \in (IF strData = <<DASH>> THEN BOOLEAN ELSE {TRUE}) :
          LET r == getData(strData, stdin, readOk)
          IN  /\ msgs' = r.out
              /\ err' = r.err
    /\ pc' = "returned"
    /\ UNCHANGED <<inputs, ctxDone, poolCtxDone, t, exists, stdin, bytes,
                   task, errs, published, summary, stages, awaitingAtCancel>>

NextData == GetDataCall

SpecData == InitData /\ [][NextData]_vars


(***************************************************************************)
(* Properties                                                              *)
(***************************************************************************)
Has(stage) == \E k \in 1..Len(stages) : stages[k] = stage

IsPrefix(a, b) == Len(a) <= Len(b) /\ \A k \in 1..Len(a) : a[k] = b[k]

\* the tasks whose publish ended with an error
Failing == {i \in Tasks : task[i] \in {"failed", "aborted"}}

\* what the error of task i wraps
CauseOf(i) == IF task[i] = "aborted" THEN "context canceled" ELSE "publish"

\* the order of the stages in the code, and the order the pipeline is
\* described with
CodeOrder == <<"ResolveTopic", "CheckExists", "Parse", "Validate",
               "Dispatch", "Aggregate", "Report">>
DescribedOrder == <<"Parse", "Validate", "ResolveTopic", "CheckExists",
                    "Dispatch", "Aggregate", "Report">>

\* the errors that are about the batch
BatchErrs == {"read stdin", "decode line", "no data to publish",
              "duplicates found"}

\* C1: one task per message of the validated batch, and realMain neither
\* returns nor prints the summary while a task has not completed
C1_JoinBarrier ==
    /\ pc \in {"dispatch", "wait", "report"} \/ Has("Dispatch")
          => /\ Tasks = 0..(Len(msgs) - 1)
             /\ Len(msgs) >= 1
             /\ \A k, l \in 1..Len(published) :
                   published[k].idx = published[l].idx => k = l
    /\ pc \in {"wait", "report"} \/ Has("Aggregate")
          => \A i \in Tasks : task[i] # "idle"
    /\ pc \in {"report", "done"} \/ summary # <<>>
          => \A i \in Tasks : task[i] \in Terminal

\* a run that returned after three tasks, of which one succeeded, one
\* failed and one was aborted
C1_Witness ==
    /\ pc = "done"
    /\ Len(msgs) = 3
    /\ \E i, j, k \in Tasks :
          task[i] = "ok" /\ task[j] = "failed" /\ task[k] = "aborted"

\* C2: after the join, a failed task makes realMain return a failure that
\* names a failing message with its cause and print no summary; the summary
\* is printed exactly when every task succeeded
C2_Aggregation ==
    /\ summary # <<>> => pc = "done" /\ Has("Aggregate")
    /\ pc = "done" /\ Has("Aggregate") =>
          /\ Failing # {} =>
                /\ err.kind = "publish msg"
                /\ Len(err.info) >= 1
                /\ \A k \in 1..Len(err.info) :
                      /\ err.info[k].idx \in Failing
                      /\ err.info[k].cause = CauseOf(err.info[k].idx)
                /\ summary = <<>>
          /\ summary # <<>> <=> \A i \in Tasks : task[i] = "ok"
          /\ summary # <<>> =>
                /\ err = NoErr
                /\ summary[1].count = Len(msgs)

\* a run that returned a publish failure although another task succeeded
C2_Witness ==
    /\ pc = "done"
    /\ err.kind = "publish msg"
    /\ \E i, j \in Tasks : task[i] = "ok" /\ task[j] = "failed"
    /\ summary = <<>>

\* C3: Publish is called only after Exists returned true on a batch that is
\* non-empty and without two equal payloads; a batch with two equal payloads
\* ends in the duplicates error that lists the value, without any Publish
C3_PublishPrecondition ==
    /\ published # <<>> =>
          /\ exists = "true"
          /\ Len(msgs) > 0
          /\ \A i, j \in 1..Len(msgs) : msgs[i] = msgs[j] => i = j
    /\ /\ Has("Validate")
       /\ \E i, j \in 1..Len(msgs) : i # j /\ msgs[i] = msgs[j]
       => /\ pc = "done"
          /\ err.kind = "duplicates found"
          /\ {err.info[k] : k \in 1..Len(err.info)}
                = {msgs[i] : i \in {i \in 1..Len(msgs) :
                      \E j \in 1..Len(msgs) : i # j /\ msgs[i] = msgs[j]}}
          /\ published = <<>>

\* a run rejected for the batch "A", "B", "A"
C3_Witness ==
    /\ pc = "done"
    /\ msgs = << <<65>>, <<66>>, <<65>> >>
    /\ err.kind = "duplicates found"
    /\ err.info = << <<65>> >>

\* a full path as the usage describes it: projects/<id>/topics/<name>
WellFormedPath(s) ==
    LET parts == Split(s, SLASH)
    IN  Len(parts) = 4 /\ parts[1] = sProjects /\ parts[3] = sTopics

\* C4: a topic with a '/' that is not of the form
\* projects/<id>/topics/<name> ends the run with the format error, before
\* Exists and before any Publish
C4_TopicPathValidation ==
    Contains(topic, SLASH) /\ ~WellFormedPath(topic) /\ Has("ResolveTopic")
       => /\ pc = "done"
          /\ err.kind = "invalid format"
          /\ exists = "none"
          /\ published = <<>>

\* C5 as stated: Parse and Validate come before ResolveTopic and
\* CheckExists, and an error about the batch is reported without any call
\* of Exists
C5_DescribedOrder ==
    /\ IsPrefix(stages, DescribedOrder)
    /\ err.kind \in BatchErrs => exists = "none"

\* C5 as the code has it: the stages run in the order ResolveTopic,
\* CheckExists, Parse, Validate, Dispatch, Aggregate, Report; the batch is
\* parsed and validated only after Exists returned true, so that an error
\* about the batch is reported only then
C5_StageOrder ==
    /\ IsPrefix(stages, CodeOrder)
    /\ Has("Parse") \/ pc \in {"parse", "validate"} => exists = "true"
    /\ err.kind \in BatchErrs =>
          /\ exists = "true"
          /\ Has("Parse")
          /\ published = <<>>

\* a run that reported an undecodable line after Exists returned true
C5_Witness ==
    /\ pc = "done"
    /\ err.kind = "decode line"
    /\ exists = "true"
    /\ stages = <<"ResolveTopic", "CheckExists", "Parse">>

\* C6: a batch decoded to no payload ends in "no data to publish", without
\* any Publish and without the summary
C6_EmptyBatch ==
    (pc = "validate" \/ Has("Validate")) /\ Len(msgs) = 0
       => /\ published = <<>>
          /\ summary = <<>>
          /\ Has("Validate") =>
                /\ pc = "done"
                /\ err.kind = "no data to publish"

\* a run rejected for a standard input of blank lines only
C6_Witness ==
    /\ pc = "done"
    /\ strData = <<DASH>>
    /\ Len(stdin) > 1
    /\ TrimSpace(stdin) = <<>>
    /\ err.kind = "no data to publish"


\* the lines of standard input, and those that are not blank
InputLines == Split(stdin, LF)
NonBlank == {k \in 1..Len(InputLines) : \E c \in 1..Len(InputLines[k]) :
                ~IsSpace(InputLines[k][c])}
\* the non-blank lines that are not base64
BadLines == {k \in NonBlank : ~DecodeString(TrimSpace(InputLines[k])).ok}

\* C7: with "-", the batch is the decodings of the non-blank lines of
\* standard input in input order; the first non-blank line that is not
\* base64 makes getData return no payload and the error that carries the
\* 0-based position of that line among all lines, blank ones included
C7_PipedDecoding ==
    pc = "returned" /\ strData = <<DASH>> /\ err.kind # "read stdin" =>
       IF BadLines = {}
       THEN /\ err = NoErr
            /\ Len(msgs) = Cardinality(NonBlank)
            /\ \A k \in NonBlank :
                  msgs[Cardinality({j \in NonBlank : j <= k})]
                     = DecodeString(TrimSpace(InputLines[k])).data
       ELSE /\ err.kind = "decode line"
            /\ \E k \in BadLines :
                  /\ \A j \in BadLines : k <= j
                  /\ err.info = <<k - 1>>
            /\ msgs = <<>>

\* getData failed on a line that follows a decoded line and a blank line
C7_Witness ==
    /\ pc = "returned"
    /\ strData = <<DASH>>
    /\ err.kind = "decode line"
    /\ err.info = <<2>>
    /\ \E j \in 1..2 : j \notin NonBlank
    /\ \E j \in 1..2 : j \in NonBlank

\* C8 as stated: without "-", getData returns no error and one payload; an
\* argument that decodes gives its decoding, which encodes back to the
\* argument; any other argument gives its own bytes
C8_RoundTrip ==
    pc = "returned" /\ strData # <<DASH>> =>
       /\ err = NoErr
       /\ Len(msgs) = 1
       /\ IF DecodeString(strData).ok
          THEN /\ msgs[1] = DecodeString(strData).data
               /\ EncodeToString(msgs[1]) = strData
          ELSE msgs[1] = strData

\* an argument in the form the encoder produces: no '\r' or '\n', and the
\* bits of the last symbol that the padding leaves unused are zero
Canonical(s) ==
    /\ \A k \in 1..Len(s) : s[k] \notin {LF, CR}
    /\ Len(s) >= 2 /\ s[Len(s)] = PAD =>
          IF s[Len(s) - 1] = PAD
          THEN Len(s) >= 3 /\ decodeMap(s[Len(s) - 2]) % 16 = 0
          ELSE decodeMap(s[Len(s) - 1]) % 4 = 0

\* C8 as the code has it: without "-", getData returns no error and one
\* payload; an argument that decodes gives its decoding, which encodes back
\* to the argument exactly when the argument is in the encoder's form, and
\* always encodes to a string that decodes to the same payload; any other
\* argument gives its own bytes
C8_SingleArgument ==
    pc = "returned" /\ strData # <<DASH>> =>
       /\ err = NoErr
       /\ Len(msgs) = 1
       /\ IF DecodeString(strData).ok
          THEN /\ msgs[1] = DecodeString(strData).data
               /\ EncodeToString(msgs[1]) = strData <=> Canonical(strData)
               /\ DecodeString(EncodeToString(msgs[1])).ok
               /\ DecodeString(EncodeToString(msgs[1])).data = msgs[1]
          ELSE msgs[1] = strData

\* getData decoded "QR==", which "A" does not encode to
C8_Witness ==
    /\ pc = "returned"
    /\ strData = <<81, 82, PAD, PAD>>
    /\ msgs = << <<65>> >>
    /\ err = NoErr

\* C9 as stated, on its safety part: every task that was awaiting its
\* acknowledgment when the interrupt came ended with an error
C9_AllAwaitingAbort ==
    pc = "done" => \A i \in awaitingAtCancel : task[i] \in {"aborted", "failed"}

\* C9 as the code has it: the interrupt cancels the context the tasks share;
\* a task then awaiting its acknowledgment completes, with the context's
\* error unless the result of its publish comes first; realMain still waits
\* for all tasks, and once a task has been aborted it eventually returns a
\* failure and never prints the summary
C9_Cancellation ==
    /\ [](ctxDone /\ pc \in {"dispatch", "wait"} => poolCtxDone)
    /\ [](pc = "done" => \A i \in awaitingAtCancel : task[i] \in Terminal)
    /\ [](\A i \in Tasks : task[i] = "aborted" => ctxDone /\ summary = <<>>)
    /\ (\E i \in Tasks : task[i] = "awaiting" /\ poolCtxDone)
          ~> (pc = "done" /\ \A i \in Tasks : task[i] \in Terminal)
    /\ (\E i \in Tasks : task[i] = "aborted")
          ~> (/\ pc = "done"
              /\ err.kind = "publish msg"
              /\ summary = <<>>)

\* a run interrupted with two tasks awaiting, of which one was aborted and
\* one still got its acknowledgment
C9_Witness ==
    /\ pc = "done"
    /\ Cardinality(awaitingAtCancel) >= 2
    /\ \E i, j \in awaitingAtCancel : task[i] = "aborted" /\ task[j] = "ok"
    /\ err.kind = "publish msg"

\* C10 as stated: with two or more failed tasks the failure returned names
\* exactly one failing message
C10_FirstErrorWins ==
    pc = "done" /\ Cardinality(Failing) >= 2 =>
       /\ err.kind = "publish msg"
       /\ Len(err.info) = 1

\* C10 as the code has it: the failure returned after the join carries the
\* error of every failed task once, in the order in which the tasks
\* completed; a task failure does not cancel the context the tasks share
C10_JoinedErrors ==
    /\ pc = "done" /\ Has("Aggregate") =>
          IF Failing = {} THEN err = NoErr
          ELSE /\ err.kind = "publish msg"
               /\ err.info = errs
               /\ {err.info[k].idx : k \in 1..Len(err.info)} = Failing
               /\ Len(err.info) = Cardinality(Failing)
    /\ pc \in {"dispatch", "wait"} /\ poolCtxDone => ctxDone

\* without any interrupt, two tasks failed and the failure lists the later
\* message first
C10_Witness ==
    /\ pc = "done"
    /\ err.kind = "publish msg"
    /\ Len(err.info) = 2
    /\ err.info[1].idx > err.info[2].idx
    /\ err.info[1].cause = "publish"
    /\ err.info[2].cause = "publish"

====
